---- MODULE Spec2Model ----
(***************************************************************************)
(* Violation detection and interval tracking of src/src/App.tsx (the       *)
(* MediaPipe App component, lines 452-1513).                               *)
(*                                                                         *)
(* One Tick is one run of detectWithMediaPipe on a frame sample, followed  *)
(* by the React render that applies the setViolations updaters the tick    *)
(* queued.  An updater passed to setViolations is a closure: it reads the  *)
(* refs when React runs it.  React runs it either at the call (legacy      *)
(* synchronous rendering, or the eager path of dispatchSetState when the   *)
(* component has no update pending) or in the render after the handler     *)
(* has returned.  Both are modelled: of the setViolations calls of a tick  *)
(* the first `eager` ones run at the call, the others run in order when    *)
(* the handler is over.  The render is taken to happen before the next     *)
(* 100 ms timer firing.                                                    *)
(*                                                                         *)
(* Spec is the detection engine of a mounted component whose models are    *)
(* loaded.  SpecLife is the life of that component: the loading of the     *)
(* models, the exam recording (handleStartExam, handleEndExam, the events  *)
(* of its MediaRecorder) and the unmount.  SpecCoco is the COCO-SSD App    *)
(* component of lines 17-450: its 500 ms detection loop and the violation  *)
(* recordings it starts.                                                   *)
(*                                                                         *)
(* Times are milliseconds.  Scores are tenths (7 stands for 0.7); the      *)
(* score of multiple_faces is the number of faces.                         *)
(***************************************************************************)
EXTENDS Integers, Sequences, FiniteSets, TLC

\* ---------------------------------------------------------------- constants
REQUIRED_CONSECUTIVE_DETECTIONS_CELL_PHONE == 3
REQUIRED_CONSECUTIVE_DETECTIONS_MULTIPLE_FACES == 8
REQUIRED_CONSECUTIVE_FACE_MISSES == 20
CELL_PHONE_DEBOUNCE_MS == 1000
\* scoreThreshold of the object detector (line 768), in tenths.
SCORE_THRESHOLD == 3
\* The period of the tab-inactivity check (line 1277).
INACTIVITY_CHECK_MS == 10000
TICK_MS == 100
\* addLogEntry keeps the last 99 entries and appends (line 650); the
\* detection history keeps its last 100 entries (line 1012).
LOG_KEPT == 99
HISTORY_LIMIT == 100
WINDOW_MS == 10000

\* ------------------------------------------------------------------- bounds
\* Date.now() of the first timer firing (any value >= CELL_PHONE_DEBOUNCE_MS
\* behaves alike: lastCellPhoneDetectionTimeRef starts at 0).
T0 == 50000
\* Timer firings in a run whose frame samples are arbitrary, and the
\* session starts in such a run.
MaxTicks == 9
MaxStarts == 1
\* Timer firings in a run that follows one of the ScenePaths.
MaxLongTicks == 44
\* Entries the interval store may hold.
MaxStore == 3
\* Faces the face detector may report in one frame.
MaxFaces == 3
\* setViolations calls of one tick that React may run at the call.
MaxEager == 2
\* SpecLife: timer firings, clicks on Start Exam, MediaRecorders of the exam
\* and chunks a recording delivers before it is stopped.
MaxLifeTicks == 3
MaxLifeStarts == 2
MaxExamRecorders == 2
MaxChunks == 1
\* SpecCoco: MediaRecorders startRecording creates, and detect calls that
\* may await net.detect at once.
MaxRecorders == 3
MaxInFlight == 2
\* SpecStore: entries of the store an updater is applied to, and updaters
\* applied in a row.
MaxInitStore == 2
MaxApply == 1
\* SpecFrame: the objects of a frame, and the ticks of a run.
MaxObjects == 2
MaxFrameTicks == 3
\* SpecQueue: the ticks of a run.
MaxQueueTicks == 4
\* SpecLog: ticks on a frame with a phone, and inactivity checks that log.
MaxLogTicks == 101
MaxLogCalls == 101

\* -------------------------------------------------------------------- types
\* DetectionType (line 460); "null" is the null of the source.
Kinds == {"cell_phone", "multiple_faces", "face_not_visible"}
NULL == "null"
\* The null of an active-violation index, and the undefined of a score.
NOIDX == 0 - 1
UNDEFINED == 0 - 1
\* Scores a phone detection may carry.
Scores == {5, 7}

Max(S) == CHOOSE x \in S : \A y \in S : y <= x

VARIABLES
  now,                            \* the clock: Date.now() / new Date()
  violations,                     \* useState<ViolationEntry[]>
  activeRef,                      \* the three active*ViolationRef, by kind
  detectionCountRef,              \* { type, count }
  faceNotVisibleCountRef,
  lastCellPhoneDetectionTimeRef,
  latestDetectionScoreRef,        \* { type, score }, type NULL for null
  sample,                         \* the frame sample of the last tick
  path,                           \* the scenes of the run so far; << >>: arbitrary samples
  starts,                         \* session starts so far
  logEntries,                     \* useState<string[]>: the log
  detectionHistory,               \* useState<DetectionHistoryEntry[]>
  pendingUpdates,                 \* setViolations updates no render has run yet
  \* the life of the MediaPipe component
  loadPc,                         \* where loadMediaPipeModels is
  faceDetectorRef,                \* TRUE: a detector, FALSE: null
  objectDetectorRef,
  detectionIntervalRef,           \* an interval id, 0 for null
  intervals,                      \* the ids of the live setInterval timers
  unmounted,                      \* the cleanup of lines 1315-1350 has run
  isExamActive,
  examRecorders,                  \* the MediaRecorders handleStartExam created
  examMediaRecorderRef,           \* an index of examRecorders, 0 for null
  examVideoChunksRef,             \* the chunks, each the index of its recorder
  artifacts,                      \* the blobs handed to the download link
  \* the COCO-SSD component
  cocoPc,                         \* where runCoco is
  cocoMounted,
  inFlight,                       \* detect calls awaiting net.detect
  mediaRecorders,                 \* the MediaRecorders startRecording created
  mediaRecorderRef,               \* an index of mediaRecorders, 0 for null
  recordingTimeoutRef,            \* a timeout id, 0 for null
  timeouts,                       \* the ids of the pending setTimeout timers
  isRecording,
  recordedVideoBlob               \* TRUE: a blob, FALSE: null

engineVars == <<now, violations, activeRef, detectionCountRef, faceNotVisibleCountRef,
                lastCellPhoneDetectionTimeRef, latestDetectionScoreRef, sample,
                path, starts, logEntries, detectionHistory, pendingUpdates>>
pageVars == <<logEntries, detectionHistory, pendingUpdates>>
loaderVars == <<loadPc, faceDetectorRef, objectDetectorRef, detectionIntervalRef,
                intervals, unmounted>>
examVars == <<isExamActive, examRecorders, examMediaRecorderRef, examVideoChunksRef,
              artifacts>>
cocoVars == <<cocoPc, cocoMounted, inFlight, mediaRecorders, mediaRecorderRef,
              recordingTimeoutRef, timeouts, isRecording, recordedVideoBlob>>
vars == <<engineVars, loaderVars, examVars, cocoVars>>

\* A frame sample: the scores of the phone-labelled object detections and
\* the number of face detections.
Samples == [phones : SUBSET Scores, faceCount : 0..MaxFaces]

\* The scenes of a long run and the sample each one yields on every tick.
\* In the scene "not_ready" the video or a detector is not ready, or
\* detectForVideo throws; "start" is a click on Start Exam.
SceneSample(name) ==
  CASE name = "not_ready"    -> [phones |-> {},     faceCount |-> 0 - 1]
    [] name = "absent"       -> [phones |-> {},     faceCount |-> 0]
    [] name = "alone"        -> [phones |-> {},     faceCount |-> 1]
    [] name = "crowd"        -> [phones |-> {},     faceCount |-> 2]
    [] name = "phone_absent" -> [phones |-> {7},    faceCount |-> 0]
    [] name = "phone_alone"  -> [phones |-> {5, 7}, faceCount |-> 1]
    [] name = "phone_crowd"  -> [phones |-> {5},    faceCount |-> 2]

\* The long runs TLC explores: each scene lasts any number of ticks (at
\* least one), and a run may stop anywhere.
Scripts ==
  {<<"absent", "alone", "absent">>,
   <<"absent", "phone_absent", "absent">>,
   <<"absent", "phone_absent", "alone">>,
   <<"absent", "phone_alone", "absent">>,
   <<"absent", "crowd", "absent">>,
   <<"absent", "start", "absent">>,
   <<"phone_alone", "alone", "phone_alone">>,
   <<"phone_alone", "start", "phone_alone">>,
   <<"phone_alone", "crowd", "phone_alone">>,
   <<"phone_alone", "absent", "alone">>,
   <<"crowd", "phone_crowd", "crowd">>,
   <<"crowd", "alone", "crowd">>,
   <<"crowd", "absent", "crowd">>,
   <<"phone_alone", "not_ready", "phone_alone">>,
   <<"absent", "not_ready", "absent">>}
ScenePaths == {SubSeq(sc, 1, n) : sc \in Scripts, n \in 1..3}
SceneNames == {sc[n] : sc \in Scripts, n \in 1..3} \ {"start"}

\* The scene that yields a sample (each scene has its own sample).
SampleScene(smp) == CHOOSE name \in SceneNames \ {"not_ready"} : SceneSample(name) = smp

\* The scene a long run is in: the last one entered.
RECURSIVE CurScene(_)
CurScene(p) ==
  IF p[Len(p)] = "start" THEN CurScene(SubSeq(p, 1, Len(p) - 1)) ELSE p[Len(p)]

\* ------------------------------------------------- the interval store
\* prev[activeIndex] && prev[activeIndex].type === type  (lines 668, 1018, ...)
\* The store is a TLA+ sequence: index i of the source is element i + 1.
ValidAt(prev, activeIndex, type) ==
  /\ activeIndex # NOIDX
  /\ activeIndex + 1 \in 1..Len(prev)
  /\ prev[activeIndex + 1].type = type

\* Mutant: the new entry ends at the violation time, not 10 s after it.
NewViolation_NoWindow(type, t, score) ==
  [type |-> type,
   violationTime |-> t,
   startTime |-> t - WINDOW_MS,
   endTime |-> t,
   score |-> score]

\* Mutant: the new entry starts at the violation time, not 10 s before it.
NewViolation_NoContext(type, t, score) ==
  [type |-> type,
   violationTime |-> t,
   startTime |-> t,
   endTime |-> t + WINDOW_MS,
   score |-> score]

\* The entry addViolation creates (lines 684-695).
NewViolation(type, t, score) ==
  [type |-> type,
   violationTime |-> t,
   startTime |-> t - WINDOW_MS,
   endTime |-> t + WINDOW_MS,
   score |-> score]

\* Mutant: addViolation without the look-up of the active entry.
AddViolationUpdater_AlwaysNew(prev, refs, type, score, t) ==
  LET newViolations == Append(prev, NewViolation(type, t, score))
  IN  [violations |-> newViolations,
       activeRef |-> [refs EXCEPT ![type] = Len(newViolations) - 1]]

\* prev.slice(-n): the last n entries of prev.
LastEntries(prev, n) ==
  IF Len(prev) <= n THEN prev ELSE SubSeq(prev, Len(prev) - n + 1, Len(prev))

\* Mutant: addLogEntry keeps every entry.
AddLogEntry_Unbounded(prev, message, t) ==
  Append(prev, [timestamp |-> t \div 1000, message |-> message])

\* addLogEntry (lines 639-651) at time t: the timestamp is formatted to the
\* second, and the log keeps its last 99 entries and the new one.
AddLogEntry(prev, message, t) ==
  Append(LastEntries(prev, LOG_KEPT), [timestamp |-> t \div 1000, message |-> message])

\* violationMessage (lines 702-708): the text, and for cell_phone the score
\* as a percentage, (score || 0) * 100.
ViolationMessage(type, score) ==
  IF type = "cell_phone"
    THEN [text |-> "Cell Phone Detected",
          percent |-> IF score = UNDEFINED THEN 0 ELSE score * 10]
    ELSE [text |-> IF type = "face_not_visible" THEN "Face Not Visible"
                   ELSE "Multiple Faces Detected",
          percent |-> UNDEFINED]

\* Mutant: the updater of addViolation logs on every run.
AddViolationLog_OnEveryRun(log, prev, refs, type, score, t) ==
  AddLogEntry(log, ViolationMessage(type, score), t)

\* The log after the updater of addViolation has run: addLogEntry is called
\* on the branch that appends (line 709), not on the one that extends.
AddViolationLog(log, prev, refs, type, score, t) ==
  IF ValidAt(prev, refs[type], type)
    THEN log
    ELSE AddLogEntry(log, ViolationMessage(type, score), t)

\* Mutant: with no active entry, addViolation extends the last entry of the
\* kind, if there is one, instead of appending.
AddViolationUpdater_ReusesLast(prev, refs, type, score, t) ==
  LET same == {i \in 1..Len(prev) : prev[i].type = type}
  IN  IF ValidAt(prev, refs[type], type)
        THEN [violations |->
                [prev EXCEPT ![refs[type] + 1] =
                   [@ EXCEPT !.endTime = t,
                             !.score = IF score # UNDEFINED THEN score ELSE @]],
              activeRef |-> refs]
        ELSE IF same # {}
               THEN [violations |-> [prev EXCEPT ![Max(same)] = [@ EXCEPT !.endTime = t]],
                     activeRef |-> [refs EXCEPT ![type] = Max(same) - 1]]
               ELSE LET newViolations == Append(prev, NewViolation(type, t, score))
                    IN  [violations |-> newViolations,
                         activeRef |-> [refs EXCEPT ![type] = Len(newViolations) - 1]]

\* Mutant: addViolation does not verify the type of the entry its ref
\* points at.
AddViolationUpdater_OverwritesStale(prev, refs, type, score, t) ==
  IF refs[type] # NOIDX /\ refs[type] + 1 \in 1..Len(prev)
    THEN [violations |->
            [prev EXCEPT ![refs[type] + 1] =
               [@ EXCEPT !.endTime = t,
                         !.score = IF score # UNDEFINED THEN score ELSE @]],
          activeRef |-> refs]
    ELSE LET newViolations == Append(prev, NewViolation(type, t, score))
         IN  [violations |-> newViolations,
              activeRef |-> [refs EXCEPT ![type] = Len(newViolations) - 1]]

\* The updater of addViolation (lines 657-713), run at time t on the store
\* prev with the refs as they are when React runs it.
AddViolationUpdater(prev, refs, type, score, t) ==
  IF ValidAt(prev, refs[type], type)
    THEN [violations |->
            [prev EXCEPT ![refs[type] + 1] =
               [@ EXCEPT !.endTime = t,
                         !.score = IF score # UNDEFINED THEN score ELSE @]],
          activeRef |-> refs]
    ELSE LET newViolations == Append(prev, NewViolation(type, t, score))
         IN  [violations |-> newViolations,
              activeRef |-> [refs EXCEPT ![type] = Len(newViolations) - 1]]

\* Mutant: closing an interval deletes its entry.
EndTimeUpdater_Drop(prev, refs, type, t) ==
  IF ValidAt(prev, refs[type], type)
    THEN SubSeq(prev, 1, refs[type]) \o SubSeq(prev, refs[type] + 2, Len(prev))
    ELSE prev

\* The updater that writes endTime: new Date() into the entry the ref of
\* `type` points at (lines 1016-1028, 1039-1051, 1081-1093, 1105-1117,
\* 1122-1134, 1195-1206, 1224-1235).
EndTimeUpdater(prev, refs, type, t) ==
  IF ValidAt(prev, refs[type], type)
    THEN [prev EXCEPT ![refs[type] + 1] = [@ EXCEPT !.endTime = t]]
    ELSE prev

\* Mutant: the debounced extension leaves the score as it was.
EndTimeScoreUpdater_KeepScore(prev, refs, latest, t) ==
  IF ValidAt(prev, refs["cell_phone"], "cell_phone")
    THEN [prev EXCEPT ![refs["cell_phone"] + 1] = [@ EXCEPT !.endTime = t]]
    ELSE prev

\* The updater of lines 1208-1222: endTime and the latest cell_phone score.
EndTimeScoreUpdater(prev, refs, latest, t) ==
  IF ValidAt(prev, refs["cell_phone"], "cell_phone")
    THEN [prev EXCEPT ![refs["cell_phone"] + 1] =
            [@ EXCEPT !.endTime = t,
                      !.score = IF latest.type = "cell_phone"
                                  THEN latest.score ELSE @]]
    ELSE prev

\* One queued setViolations update, run by React at time t.  m carries the
\* store and the refs; the result is m with both as the updater leaves them.
RunUpdater(m, u, t) ==
  CASE u.op = "add" ->
         LET r == AddViolationUpdater(m.violations, m.activeRef, u.type, u.score, t)
         IN  [m EXCEPT !.violations = r.violations, !.activeRef = r.activeRef,
                       !.log = AddViolationLog(@, m.violations, m.activeRef,
                                               u.type, u.score, t)]
    [] u.op = "end" ->
         [m EXCEPT !.violations = EndTimeUpdater(@, m.activeRef, u.type, t)]
    [] u.op = "endScore" ->
         [m EXCEPT !.violations = EndTimeScoreUpdater(@, m.activeRef, m.latest, t)]
    [] u.op = "reset" ->
         [m EXCEPT !.violations = << >>]

\* setViolations(u): React runs u at the call while m.eager > 0, and queues
\* it for the render otherwise.
SetViolations(m, u, t) ==
  IF m.eager > 0
    THEN [RunUpdater(m, u, t) EXCEPT !.eager = @ - 1]
    ELSE [m EXCEPT !.pending = Append(@, u)]

\* The render: the queued updaters run in the order of their calls.
RECURSIVE Render(_, _)
Render(m, t) ==
  IF m.pending = << >>
    THEN m
    ELSE Render([RunUpdater(m, Head(m.pending), t) EXCEPT !.pending = Tail(@)], t)

EndUpdate(type) == [op |-> "end", type |-> type, score |-> UNDEFINED]
EndScoreUpdate == [op |-> "endScore", type |-> "cell_phone", score |-> UNDEFINED]
AddUpdate(type, score) == [op |-> "add", type |-> type, score |-> score]
ResetUpdate == [op |-> "reset", type |-> NULL, score |-> UNDEFINED]

\* addViolation(type, score) for the three duration kinds (lines 654-714).
addViolation(m, type, score, t) == SetViolations(m, AddUpdate(type, score), t)

\* setViolations(end updater) followed by active<Kind>ViolationRef.current =
\* null (lines 1016-1029 and the like).
EndViolation(m, type, t) ==
  [SetViolations(m, EndUpdate(type), t) EXCEPT !.activeRef[type] = NOIDX]

\* The close step of a kind (lines 1014-1030, 1037-1053, 1080-1095): nothing
\* when its ref is null.
Close(m, type, t) ==
  IF m.activeRef[type] # NOIDX THEN EndViolation(m, type, t) ELSE m

\* ------------------------------------------------ detectWithMediaPipe
\* isCellPhoneDetected and cellPhoneScore (lines 965-995): cellPhoneScore
\* starts at 0 and takes Math.max with the score of each phone detection.
\* Mutant: the score of the weakest phone detection.
CellPhoneScore_Lowest(smp) ==
  IF smp.phones = {} THEN 0 ELSE CHOOSE x \in smp.phones : \A y \in smp.phones : x <= y

IsCellPhoneDetected(smp) == smp.phones # {}
CellPhoneScore(smp) == Max(smp.phones \cup {0})

\* The updater of setDetectionHistory (lines 1003-1013).  An entry is kept
\* as its type: nothing reads the timestamp and the score of an entry.
HistoryUpdater(prev, score, t) ==
  LastEntries(Append(prev, [type |-> "cell_phone"]), HISTORY_LIMIT)

\* Lines 997-1030: the cell_phone candidate, or the end of its interval.
CellPhoneStep(m, smp, t) ==
  IF IsCellPhoneDetected(smp) /\ m.cur = NULL
    THEN [m EXCEPT !.cur = "cell_phone",
                   !.latest = [type |-> "cell_phone", score |-> CellPhoneScore(smp)],
                   !.history = HistoryUpdater(@, CellPhoneScore(smp), t)]
    ELSE IF ~IsCellPhoneDetected(smp) /\ m.activeRef["cell_phone"] # NOIDX
           THEN EndViolation(m, "cell_phone", t)
           ELSE m

\* Mutant: several faces are selected even when a phone was selected.
MultipleFacesStep_Overrides(m, smp, t) ==
  IF smp.faceCount > 1
    THEN [m EXCEPT !.cur = "multiple_faces",
                   !.latest = [type |-> "multiple_faces", score |-> smp.faceCount]]
    ELSE IF smp.faceCount <= 1 /\ m.activeRef["multiple_faces"] # NOIDX
           THEN EndViolation(m, "multiple_faces", t)
           ELSE m

\* Mutant: several faces are scored 1, whatever their number.
MultipleFacesStep_ScoreOne(m, smp, t) ==
  IF smp.faceCount > 1 /\ m.cur = NULL
    THEN [m EXCEPT !.cur = "multiple_faces",
                   !.latest = [type |-> "multiple_faces", score |-> 1]]
    ELSE IF smp.faceCount <= 1 /\ m.activeRef["multiple_faces"] # NOIDX
           THEN EndViolation(m, "multiple_faces", t)
           ELSE m

\* Lines 1032-1053: the multiple_faces candidate, or the end of its interval.
MultipleFacesStep(m, smp, t) ==
  IF smp.faceCount > 1 /\ m.cur = NULL
    THEN [m EXCEPT !.cur = "multiple_faces",
                   !.latest = [type |-> "multiple_faces", score |-> smp.faceCount]]
    ELSE IF smp.faceCount <= 1 /\ m.activeRef["multiple_faces"] # NOIDX
           THEN EndViolation(m, "multiple_faces", t)
           ELSE m

\* Lines 1055-1097: the face-miss counter, the face_not_visible candidate,
\* or the reset of the counter and the end of the interval.
FaceNotVisibleStep(m, smp, t) ==
  IF smp.faceCount = 0 /\ m.cur = NULL
    THEN LET n == m.fnv + 1
         IN  IF n >= REQUIRED_CONSECUTIVE_FACE_MISSES
               THEN [m EXCEPT !.fnv = n,
                              !.cur = "face_not_visible",
                              !.latest = [type |-> "face_not_visible", score |-> 0]]
               ELSE [m EXCEPT !.fnv = n]
    ELSE IF smp.faceCount > 0
           THEN LET m1 == [m EXCEPT !.fnv = 0]
                IN  IF m1.dc.type = "face_not_visible"
                      THEN LET m2 == [m1 EXCEPT !.dc = [type |-> NULL, count |-> 0]]
                           IN  IF m2.activeRef["face_not_visible"] # NOIDX
                                 THEN EndViolation(m2, "face_not_visible", t)
                                 ELSE m2
                      ELSE m1
           ELSE m

\* Lines 1099-1140: the consecutive-run tracker.
TrackConsecutive(m, t) ==
  IF m.cur = m.dc.type
    THEN [m EXCEPT !.dc.count = @ + 1]
    ELSE LET m1 == IF m.dc.type = "cell_phone" /\ m.activeRef["cell_phone"] # NOIDX
                     THEN EndViolation(m, "cell_phone", t) ELSE m
             m2 == IF m1.dc.type = "multiple_faces" /\ m1.activeRef["multiple_faces"] # NOIDX
                     THEN EndViolation(m1, "multiple_faces", t) ELSE m1
         IN  [m2 EXCEPT !.dc = [type |-> m.cur,
                                count |-> IF m.cur # NULL THEN 1 ELSE 0]]

\* requiredConsecutive (lines 1144-1148).
RequiredConsecutive(confirmedDetection) ==
  IF confirmedDetection = "cell_phone"
    THEN REQUIRED_CONSECUTIVE_DETECTIONS_CELL_PHONE
    ELSE IF confirmedDetection = "multiple_faces"
           THEN REQUIRED_CONSECUTIVE_DETECTIONS_MULTIPLE_FACES
           ELSE REQUIRED_CONSECUTIVE_FACE_MISSES

\* Mutant: confirmed one tick early.
HasEnoughConsecutiveDetections_OffByOne(dc) ==
  dc.count + 1 >= RequiredConsecutive(dc.type) /\ dc.type # NULL

\* hasEnoughConsecutiveDetections (line 1150).
HasEnoughConsecutiveDetections(dc) ==
  dc.count >= RequiredConsecutive(dc.type) /\ dc.type # NULL

\* Mutant: no debounce.
ShouldTriggerAlert_NoDebounce(dc, last, t) == HasEnoughConsecutiveDetections(dc)

\* shouldTriggerAlert (lines 1153-1162).
ShouldTriggerAlert(dc, last, t) ==
  IF dc.type = "cell_phone" /\ HasEnoughConsecutiveDetections(dc)
    THEN t - last >= CELL_PHONE_DEBOUNCE_MS
    ELSE HasEnoughConsecutiveDetections(dc)

\* Lines 1164-1236: record, extend, or leave alone.
TriggerStep(m, t) ==
  LET confirmedDetection == m.dc.type
  IN  IF ShouldTriggerAlert(m.dc, m.last, t)
        THEN LET m1 == IF confirmedDetection = "cell_phone"
                         THEN [m EXCEPT !.last = t] ELSE m
                 violationScore == IF m1.latest.type = confirmedDetection
                                     THEN m1.latest.score ELSE UNDEFINED
             IN  addViolation(m1, confirmedDetection, violationScore, t)
        ELSE IF confirmedDetection = "face_not_visible"
                  /\ m.activeRef["face_not_visible"] # NOIDX
               THEN SetViolations(m, EndUpdate("face_not_visible"), t)
        ELSE IF confirmedDetection = "cell_phone"
                  /\ m.activeRef["cell_phone"] # NOIDX
               THEN SetViolations(m, EndScoreUpdate, t)
        ELSE IF confirmedDetection = "multiple_faces"
                  /\ m.activeRef["multiple_faces"] # NOIDX
               THEN SetViolations(m, EndUpdate("multiple_faces"), t)
        ELSE m

\* The engine state as a record the steps of a handler thread through.
Machine(eager) ==
  [violations |-> violations,
   activeRef |-> activeRef,
   dc |-> detectionCountRef,
   fnv |-> faceNotVisibleCountRef,
   last |-> lastCellPhoneDetectionTimeRef,
   latest |-> latestDetectionScoreRef,
   cur |-> NULL,
   log |-> logEntries,
   history |-> detectionHistory,
   pending |-> pendingUpdates,
   eager |-> eager]

\* The body of detectWithMediaPipe once both detectors have answered
\* (lines 957-1236).
DetectBody(m, smp, t) ==
  TriggerStep(TrackConsecutive(
    FaceNotVisibleStep(MultipleFacesStep(CellPhoneStep(m, smp, t), smp, t), smp, t),
    t), t)

\* The handler, then the render of what it queued.
Detect(m, smp, t) == Render(DetectBody(m, smp, t), t)

\* The setViolations calls the handler makes on this sample (which calls it
\* makes does not depend on when React runs the updaters: the refs the
\* handler tests are written by the handler itself, or by the updater of
\* addViolation, its last call).
SetCalls(smp, t) == Len(DetectBody(Machine(0), smp, t).pending)

Install(m) ==
  /\ violations' = m.violations
  /\ activeRef' = m.activeRef
  /\ detectionCountRef' = m.dc
  /\ faceNotVisibleCountRef' = m.fnv
  /\ lastCellPhoneDetectionTimeRef' = m.last
  /\ latestDetectionScoreRef' = m.latest
  /\ logEntries' = m.log
  /\ detectionHistory' = m.history
  /\ pendingUpdates' = m.pending

\* The samples the next tick may see: any, or in a long run the sample of
\* the scene the run is in or of a scene it may enter.
TickSamples ==
  IF path = << >>
    THEN Samples
    ELSE {SceneSample(name) :
            name \in {n \in SceneNames \ {"not_ready"} :
                        n = CurScene(path) \/ Append(path, n) \in ScenePaths}}

\* One firing of the 100 ms timer (lines 779-781) on a frame the detectors
\* answer for.
TickBody(smp, eager) ==
  /\ now' = now + TICK_MS
  /\ sample' = smp
  /\ starts' = starts
  /\ LET m == Detect(Machine(eager), smp, now')
     IN  /\ Len(m.violations) <= MaxStore
         /\ Install(m)

\* The condition of lines 793-798 and 805: the video is there (the component
\* is mounted and the webcam is ready) and both detector refs are set.
DetectorsReady == ~unmounted /\ faceDetectorRef /\ objectDetectorRef

Tick(smp, eager) ==
  /\ intervals # {}
  /\ DetectorsReady
  /\ smp \in TickSamples
  /\ now + TICK_MS <= T0 + (IF path = << >> THEN MaxTicks ELSE MaxLongTicks) * TICK_MS
  /\ path' = IF path = << >> \/ smp = SceneSample(CurScene(path))
               THEN path ELSE Append(path, SampleScene(smp))
  /\ TickBody(smp, eager)
  /\ UNCHANGED <<loaderVars, examVars, cocoVars>>

\* Mutant: a tick without classifier results counts as a tick that saw
\* nothing (the run is interrupted).
SkipTick_Miss ==
  /\ \/ /\ path = << >>
        /\ now + TICK_MS <= T0 + MaxTicks * TICK_MS
        /\ path' = path
     \/ /\ path # << >>
        /\ now + TICK_MS <= T0 + MaxLongTicks * TICK_MS
        /\ \/ CurScene(path) = "not_ready" /\ path' = path
           \/ /\ Append(path, "not_ready") \in ScenePaths
              /\ path' = Append(path, "not_ready")
  /\ intervals # {}
  /\ now' = now + TICK_MS
  /\ detectionCountRef' = [type |-> NULL, count |-> 0]
  /\ faceNotVisibleCountRef' = 0
  /\ UNCHANGED <<violations, activeRef,
                 lastCellPhoneDetectionTimeRef, latestDetectionScoreRef, sample,
                 starts, pageVars>>
  /\ UNCHANGED <<loaderVars, examVars, cocoVars>>

\* One firing of the timer that finds the video or a detector not ready
\* (the condition of lines 793-798 or 805 fails), or in which detectForVideo
\* throws (lines 809-816, caught at 1238): nothing is written.
SkipTick ==
  /\ \/ /\ path = << >>
        /\ now + TICK_MS <= T0 + MaxTicks * TICK_MS
        /\ path' = path
     \/ /\ path # << >>
        /\ now + TICK_MS <= T0 + MaxLongTicks * TICK_MS
        /\ \/ CurScene(path) = "not_ready" /\ path' = path
           \/ /\ Append(path, "not_ready") \in ScenePaths
              /\ path' = Append(path, "not_ready")
  /\ intervals # {}
  /\ now' = now + TICK_MS
  /\ UNCHANGED <<violations, activeRef, detectionCountRef, faceNotVisibleCountRef,
                 lastCellPhoneDetectionTimeRef, latestDetectionScoreRef, sample,
                 starts, pageVars>>
  /\ UNCHANGED <<loaderVars, examVars, cocoVars>>

\* What new MediaRecorder(...) and recorder.start(1000) of lines 570 and 583
\* may do: both succeed, the constructor throws, or start throws.
StartOutcomes == {"ok", "constructor_throws", "start_throws"}

\* A MediaRecorder of the exam: its state ("recording"; "inactive" when it
\* was never started; "stopping" when it is inactive and its stop event is
\* still to fire; "stopped" after the stop event), whether onstop is set,
\* and the non-empty chunks it has delivered.
NewExamRecorder(state) == [state |-> state, onstop |-> FALSE, delivered |-> 0]

\* Mutant: a failure to start the recording stops the detection timer.
StartExam_AbortsDetection(outcome) ==
  /\ starts' = starts + 1
  /\ LET m0 == SetViolations(Machine(0), ResetUpdate, now)
         m  == Render([m0 EXCEPT !.activeRef = [k \in Kinds |-> NOIDX]], now)
     IN  Install(m)
  /\ examVideoChunksRef' = << >>
  /\ CASE outcome = "ok" ->
            /\ examRecorders' = Append(examRecorders, NewExamRecorder("recording"))
            /\ examMediaRecorderRef' = Len(examRecorders) + 1
            /\ isExamActive' = TRUE
            /\ UNCHANGED <<intervals, detectionIntervalRef>>
       [] outcome = "constructor_throws" ->
            /\ isExamActive' = FALSE
            /\ intervals' = {}
            /\ detectionIntervalRef' = 0
            /\ UNCHANGED <<examRecorders, examMediaRecorderRef>>
       [] outcome = "start_throws" ->
            /\ examRecorders' = Append(examRecorders, NewExamRecorder("inactive"))
            /\ examMediaRecorderRef' = Len(examRecorders) + 1
            /\ isExamActive' = FALSE
            /\ intervals' = {}
            /\ detectionIntervalRef' = 0
  /\ UNCHANGED <<now, sample, artifacts, loadPc, faceDetectorRef, objectDetectorRef,
                 unmounted, cocoVars>>

\* The body of handleStartExam once the video stream is there (lines
\* 560-588): the store is emptied, the three active refs are cleared and the
\* chunk buffer is emptied; then the recorder is created, stored in the ref
\* and started.  If that throws, isExamActive goes back to false.  The
\* tracker refs, the detectors and the detection timer are not touched.
StartExam(outcome) ==
  /\ starts' = starts + 1
  /\ LET m0 == SetViolations(Machine(0), ResetUpdate, now)
         m  == Render([m0 EXCEPT !.activeRef = [k \in Kinds |-> NOIDX]], now)
     IN  Install(m)
  /\ examVideoChunksRef' = << >>
  /\ CASE outcome = "ok" ->
            /\ examRecorders' = Append(examRecorders, NewExamRecorder("recording"))
            /\ examMediaRecorderRef' = Len(examRecorders) + 1
            /\ isExamActive' = TRUE
            /\ UNCHANGED <<intervals, detectionIntervalRef>>
       [] outcome = "constructor_throws" ->
            /\ isExamActive' = FALSE
            /\ UNCHANGED <<intervals, detectionIntervalRef>>
            /\ UNCHANGED <<examRecorders, examMediaRecorderRef>>
       [] outcome = "start_throws" ->
            /\ examRecorders' = Append(examRecorders, NewExamRecorder("inactive"))
            /\ examMediaRecorderRef' = Len(examRecorders) + 1
            /\ isExamActive' = FALSE
            /\ UNCHANGED <<intervals, detectionIntervalRef>>
  /\ UNCHANGED <<now, sample, artifacts, loadPc, faceDetectorRef, objectDetectorRef,
                 unmounted, cocoVars>>

\* The button of lines 1486-1487 calls handleStartExam while isExamActive is
\* false, the webcam is ready and the models are loaded.
StartExamEnabled == ~isExamActive /\ ~unmounted /\ loadPc = "done"

\* handleStartExam (lines 547-589) in a run of the engine: the recorder
\* starts.  (What the engine does after a start does not depend on the
\* recorder; the starts that fail are in SpecLife.)
HandleStartExam ==
  /\ StartExamEnabled
  /\ \/ path = << >> /\ starts < MaxStarts /\ path' = path
     \/ Append(path, "start") \in ScenePaths /\ path' = Append(path, "start")
  /\ StartExam("ok")

\* The refs and the state of the MediaPipe component after its first
\* render (lines 479-511), loadMediaPipeModels just called (line 1312).
InitEngine ==
  /\ now = T0
  /\ violations = << >>
  /\ activeRef = [k \in Kinds |-> NOIDX]
  /\ detectionCountRef = [type |-> NULL, count |-> 0]
  /\ faceNotVisibleCountRef = 0
  /\ lastCellPhoneDetectionTimeRef = 0
  /\ latestDetectionScoreRef = [type |-> NULL, score |-> 0]
  /\ starts = 0
  /\ logEntries = << >>
  /\ detectionHistory = << >>
  /\ pendingUpdates = << >>

InitExam ==
  /\ isExamActive = FALSE
  /\ examRecorders = << >>
  /\ examMediaRecorderRef = 0
  /\ examVideoChunksRef = << >>
  /\ artifacts = << >>

InitLoader ==
  /\ loadPc = "vision"
  /\ faceDetectorRef = FALSE
  /\ objectDetectorRef = FALSE
  /\ detectionIntervalRef = 0
  /\ intervals = {}
  /\ unmounted = FALSE

\* The MediaPipe component once loadMediaPipeModels has run to its end.
Loaded ==
  /\ loadPc = "done"
  /\ faceDetectorRef = TRUE
  /\ objectDetectorRef = TRUE
  /\ detectionIntervalRef = 1
  /\ intervals = {1}
  /\ unmounted = FALSE

\* The refs and the state of the COCO-SSD component after its first render
\* (lines 18-30), runCoco just called (line 304).
InitCoco ==
  /\ cocoPc = "loading"
  /\ cocoMounted = TRUE
  /\ inFlight = 0
  /\ mediaRecorders = << >>
  /\ mediaRecorderRef = 0
  /\ recordingTimeoutRef = 0
  /\ timeouts = {}
  /\ isRecording = FALSE
  /\ recordedVideoBlob = FALSE

Init ==
  /\ InitEngine
  /\ path \in {<< >>} \cup {p \in ScenePaths : Len(p) = 1}
  /\ sample = IF path = << >> THEN SceneSample("alone") ELSE SceneSample(path[1])
  /\ Loaded
  /\ InitExam
  /\ InitCoco

\* A tick of n calls has the same outcome for every eager >= n.
Next ==
  \/ \E smp \in TickSamples :
       \E eager \in {e \in 0..MaxEager : e <= SetCalls(smp, now + TICK_MS)} :
         Tick(smp, eager)
  \/ SkipTick
  \/ HandleStartExam

Spec == Init /\ [][Next]_vars

\* ------------------------------------------- the life of the component
\* The awaits of loadMediaPipeModels (lines 743, 748, 762) settle one after
\* the other, whether the component is still mounted or not; a rejection
\* lands in the catch of line 784, which only logs.
LoadVision(ok) ==
  /\ loadPc = "vision"
  /\ loadPc' = IF ok THEN "face" ELSE "failed"
  /\ UNCHANGED <<faceDetectorRef, objectDetectorRef, detectionIntervalRef, intervals,
                 unmounted, engineVars, examVars, cocoVars>>

\* Lines 748-758: the face detector is created and stored in its ref.
LoadFaceDetector(ok) ==
  /\ loadPc = "face"
  /\ loadPc' = IF ok THEN "object" ELSE "failed"
  /\ faceDetectorRef' = IF ok THEN TRUE ELSE faceDetectorRef
  /\ UNCHANGED <<objectDetectorRef, detectionIntervalRef, intervals,
                 unmounted, engineVars, examVars, cocoVars>>

\* Lines 762-781: the object detector is created and stored in its ref,
\* modelsLoaded is set and the 100 ms interval is installed, its id stored
\* in detectionIntervalRef.
LoadObjectDetector(ok) ==
  /\ loadPc = "object"
  /\ loadPc' = IF ok THEN "done" ELSE "failed"
  /\ objectDetectorRef' = IF ok THEN TRUE ELSE objectDetectorRef
  /\ detectionIntervalRef' = IF ok THEN 1 ELSE detectionIntervalRef
  /\ intervals' = IF ok THEN intervals \cup {1} ELSE intervals
  /\ UNCHANGED <<faceDetectorRef, unmounted, engineVars, examVars, cocoVars>>

\* The cleanup of the effect (lines 1315-1350): the interval whose id is in
\* detectionIntervalRef is cleared, the detectors are closed and their refs
\* nulled, and an exam recorder that is not inactive is stopped and its ref
\* nulled.
Cleanup ==
  /\ ~unmounted
  /\ unmounted' = TRUE
  /\ intervals' = intervals \ {detectionIntervalRef}
  /\ detectionIntervalRef' = 0
  /\ faceDetectorRef' = FALSE
  /\ objectDetectorRef' = FALSE
  /\ IF examMediaRecorderRef # 0 /\ examRecorders[examMediaRecorderRef].state = "recording"
       THEN /\ examRecorders' = [examRecorders EXCEPT ![examMediaRecorderRef].state = "stopping"]
            /\ examMediaRecorderRef' = 0
       ELSE UNCHANGED <<examRecorders, examMediaRecorderRef>>
  /\ UNCHANGED <<loadPc, isExamActive, examVideoChunksRef, artifacts, engineVars, cocoVars>>

\* One firing of a live 100 ms timer in the life of the component, on a
\* frame with a phone and one face: a processed tick when the video and both
\* detectors are there, and a tick that does nothing otherwise.
LifeTick ==
  /\ intervals # {}
  /\ now + TICK_MS <= T0 + MaxLifeTicks * TICK_MS
  /\ IF DetectorsReady
       THEN TickBody(SceneSample("phone_alone"), MaxEager)
       ELSE /\ now' = now + TICK_MS
            /\ UNCHANGED <<violations, activeRef, detectionCountRef, faceNotVisibleCountRef,
                           lastCellPhoneDetectionTimeRef, latestDetectionScoreRef, sample,
                           starts, pageVars>>
  /\ UNCHANGED <<path, loaderVars, examVars, cocoVars>>

\* A click on Start Exam in the life of the component.
LifeStartExam ==
  /\ StartExamEnabled
  /\ starts < MaxLifeStarts
  /\ Len(examRecorders) < MaxExamRecorders
  /\ \E outcome \in StartOutcomes : StartExam(outcome)
  /\ path' = path

\* A dataavailable event of a recording exam recorder (the 1 s time slice of
\* line 583): a non-empty chunk is pushed to the buffer (lines 573-577).
ChunkAvailable(r) ==
  /\ examRecorders[r].state = "recording"
  /\ examRecorders[r].delivered < MaxChunks
  /\ examRecorders' = [examRecorders EXCEPT ![r].delivered = @ + 1]
  /\ examVideoChunksRef' = Append(examVideoChunksRef, r)
  /\ UNCHANGED <<isExamActive, examMediaRecorderRef, artifacts, engineVars, loaderVars,
                 cocoVars>>

\* handleEndExam (lines 592-636), called by the button while isExamActive is
\* true.  stop() on a recorder that is not recording does nothing or, in
\* engines that follow the older MediaStream Recording draft, throws
\* InvalidStateError (`throws`); the catch sets isExamActive to false.
HandleEndExam(throws) ==
  /\ isExamActive /\ ~unmounted
  /\ IF examMediaRecorderRef = 0
       THEN UNCHANGED <<isExamActive, examRecorders>>
       ELSE IF examRecorders[examMediaRecorderRef].state = "recording"
              THEN /\ examRecorders' = [examRecorders EXCEPT
                                          ![examMediaRecorderRef].state = "stopping",
                                          ![examMediaRecorderRef].onstop = TRUE]
                   /\ UNCHANGED isExamActive
              ELSE IF throws
                     THEN /\ isExamActive' = FALSE
                          /\ UNCHANGED examRecorders
                     ELSE /\ examRecorders' = [examRecorders EXCEPT
                                                 ![examMediaRecorderRef].onstop = TRUE]
                          /\ UNCHANGED isExamActive
  /\ UNCHANGED <<examMediaRecorderRef, examVideoChunksRef, artifacts, engineVars,
                 loaderVars, cocoVars>>

\* The task a stopped recorder queues: a last dataavailable event, whose
\* data may be empty (`size` 0), then the stop event.  The handler of lines
\* 599-631, if it is set, builds one blob from the buffer and downloads it
\* when the buffer is not empty, then clears isExamActive, the buffer and the
\* recorder ref.
RecorderStop(r, size) ==
  /\ examRecorders[r].state = "stopping"
  /\ LET chunks == IF size > 0 THEN Append(examVideoChunksRef, r) ELSE examVideoChunksRef
     IN  /\ examRecorders' = [examRecorders EXCEPT
                                ![r].state = "stopped",
                                ![r].delivered = IF size > 0 THEN @ + 1 ELSE @]
         /\ IF examRecorders[r].onstop
              THEN /\ artifacts' = IF Len(chunks) > 0 THEN Append(artifacts, chunks)
                                                     ELSE artifacts
                   /\ isExamActive' = FALSE
                   /\ examVideoChunksRef' = << >>
                   /\ examMediaRecorderRef' = 0
              ELSE /\ examVideoChunksRef' = chunks
                   /\ UNCHANGED <<artifacts, isExamActive, examMediaRecorderRef>>
  /\ UNCHANGED <<engineVars, loaderVars, cocoVars>>

InitLife ==
  /\ InitEngine
  /\ path = << >>
  /\ sample = SceneSample("alone")
  /\ InitLoader
  /\ InitExam
  /\ InitCoco

NextLife ==
  \/ \E ok \in BOOLEAN : LoadVision(ok)
  \/ \E ok \in BOOLEAN : LoadFaceDetector(ok)
  \/ \E ok \in BOOLEAN : LoadObjectDetector(ok)
  \/ Cleanup
  \/ LifeTick
  \/ LifeStartExam
  \/ \E r \in 1..Len(examRecorders) : ChunkAvailable(r)
  \/ \E throws \in BOOLEAN : HandleEndExam(throws)
  \/ \E r \in 1..Len(examRecorders) : \E size \in {0, 1} : RecorderStop(r, size)

SpecLife == InitLife /\ [][NextLife]_vars

\* ------------------------------------------- the COCO-SSD component
\* runCoco (lines 124-151): once the model is loaded the 500 ms interval is
\* installed; its id is not kept.  A failure is logged.
RunCoco(ok) ==
  /\ cocoPc = "loading"
  /\ cocoPc' = IF ok THEN "running" ELSE "failed"
  /\ UNCHANGED <<cocoMounted, inFlight, mediaRecorders, mediaRecorderRef,
                 recordingTimeoutRef, timeouts, isRecording, recordedVideoBlob,
                 engineVars, loaderVars, examVars>>

\* One firing of the 500 ms timer (lines 145-147) on a ready video: detect
\* runs up to its await of net.detect (lines 153-171).  Nothing tells it that
\* an earlier call is still waiting.
DetectCall ==
  /\ cocoPc = "running"
  /\ cocoMounted
  /\ inFlight < MaxInFlight
  /\ inFlight' = inFlight + 1
  /\ UNCHANGED <<cocoPc, cocoMounted, mediaRecorders, mediaRecorderRef,
                 recordingTimeoutRef, timeouts, isRecording, recordedVideoBlob,
                 engineVars, loaderVars, examVars>>

\* The isRecording that detect reads at line 294.  The timer calls the
\* detect of the first render (the effect of lines 303-315 has no
\* dependencies), and in that render isRecording is the initial false of
\* line 30.
IsRecordingInDetect == FALSE

\* What the MediaRecorder constructors and start() of startRecording may do:
\* "ok", the first attempt succeeds; "fallback", the vp9 constructor throws
\* and the second attempt succeeds; "constructor_throws", both constructors
\* throw; "start_throws", the recorder is stored in the ref and start()
\* throws, in both attempts.
RecordingOutcomes == {"ok", "fallback", "constructor_throws", "start_throws"}

\* startRecording (lines 32-99) on a mounted component with a stream.  A
\* recorder is "recording", "inactive" (never started), "stopping" (inactive,
\* its stop event still to fire) or "stopped".  The timeout of a recording
\* takes the index of its recorder as its id.
StartRecording(outcome) ==
  LET n == Len(mediaRecorders) + 1
  IN  /\ recordedVideoBlob' = FALSE
      /\ CASE outcome \in {"ok", "fallback"} ->
                /\ mediaRecorders' = Append(mediaRecorders, "recording")
                /\ mediaRecorderRef' = n
                /\ isRecording' = TRUE
                /\ recordingTimeoutRef' = n
                /\ timeouts' = timeouts \cup {n}
           [] outcome = "constructor_throws" ->
                UNCHANGED <<mediaRecorders, mediaRecorderRef, isRecording,
                            recordingTimeoutRef, timeouts>>
           [] outcome = "start_throws" ->
                /\ mediaRecorders' = Append(mediaRecorders, "inactive")
                /\ mediaRecorderRef' = n
                /\ UNCHANGED <<isRecording, recordingTimeoutRef, timeouts>>

\* net.detect answers one waiting call of detect, which runs to its end
\* (lines 173-298): with a violation in the frame (`detected`) and
\* !isRecording it calls startRecording.  After the unmount the canvas ref
\* is null and the call ends at line 173.
DetectResume(detected, outcome) ==
  /\ inFlight > 0
  /\ inFlight' = inFlight - 1
  /\ IF cocoMounted /\ detected /\ ~IsRecordingInDetect
       THEN /\ Len(mediaRecorders) < MaxRecorders
            /\ StartRecording(outcome)
       ELSE UNCHANGED <<mediaRecorders, mediaRecorderRef, recordingTimeoutRef,
                        timeouts, isRecording, recordedVideoBlob>>
  /\ UNCHANGED <<cocoPc, cocoMounted, engineVars, loaderVars, examVars>>

\* The timeouts all wait 5000 ms: they fire in the order they were set.
NextTimeout == CHOOSE id \in timeouts : \A other \in timeouts : id <= other

\* A 5 s timeout fires and calls stopRecording (lines 101-109): the recorder
\* in mediaRecorderRef is stopped if it is not inactive, and the timeout
\* whose id is in recordingTimeoutRef is cleared.
TimeoutFires ==
  /\ timeouts # {}
  /\ mediaRecorders' =
       IF mediaRecorderRef # 0 /\ mediaRecorders[mediaRecorderRef] = "recording"
         THEN [mediaRecorders EXCEPT ![mediaRecorderRef] = "stopping"]
         ELSE mediaRecorders
  /\ timeouts' = (timeouts \ {NextTimeout}) \ {recordingTimeoutRef}
  /\ recordingTimeoutRef' = 0
  /\ UNCHANGED <<cocoPc, cocoMounted, inFlight, mediaRecorderRef, isRecording,
                 recordedVideoBlob, engineVars, loaderVars, examVars>>

\* The stop event of a stopped recorder: onstop (lines 54-59) builds the
\* blob and clears isRecording.
OnStop(i) ==
  /\ mediaRecorders[i] = "stopping"
  /\ mediaRecorders' = [mediaRecorders EXCEPT ![i] = "stopped"]
  /\ recordedVideoBlob' = TRUE
  /\ isRecording' = FALSE
  /\ UNCHANGED <<cocoPc, cocoMounted, inFlight, mediaRecorderRef, recordingTimeoutRef,
                 timeouts, engineVars, loaderVars, examVars>>

\* The cleanup of the effect (lines 307-314): the timeout in
\* recordingTimeoutRef is cleared and the recorder in mediaRecorderRef is
\* stopped if it is not inactive.  The 500 ms interval is not cleared.
CocoCleanup ==
  /\ cocoMounted
  /\ cocoMounted' = FALSE
  /\ timeouts' = timeouts \ {recordingTimeoutRef}
  /\ mediaRecorders' =
       IF mediaRecorderRef # 0 /\ mediaRecorders[mediaRecorderRef] = "recording"
         THEN [mediaRecorders EXCEPT ![mediaRecorderRef] = "stopping"]
         ELSE mediaRecorders
  /\ UNCHANGED <<cocoPc, inFlight, mediaRecorderRef, recordingTimeoutRef, isRecording,
                 recordedVideoBlob, engineVars, loaderVars, examVars>>

InitCocoSpec ==
  /\ InitEngine
  /\ path = << >>
  /\ sample = SceneSample("alone")
  /\ InitLoader
  /\ InitExam
  /\ InitCoco

NextCoco ==
  \/ \E ok \in BOOLEAN : RunCoco(ok)
  \/ DetectCall
  \/ \E detected \in BOOLEAN : \E outcome \in RecordingOutcomes :
       DetectResume(detected, outcome)
  \/ TimeoutFires
  \/ \E i \in 1..Len(mediaRecorders) : OnStop(i)
  \/ CocoCleanup

SpecCoco == InitCocoSpec /\ [][NextCoco]_vars

\* ------------------------------------ the updaters of the store, alone
\* A store of entries of the given kinds, one second apart, the last one a
\* second before T0.
StoreOf(types) ==
  [i \in 1..Len(types) |->
     NewViolation(types[i], T0 - (Len(types) - i + 1) * CELL_PHONE_DEBOUNCE_MS, 5)]

\* Any store of up to MaxInitStore entries and any refs, valid or stale.
InitStore ==
  /\ now = T0
  /\ detectionCountRef = [type |-> NULL, count |-> 0]
  /\ faceNotVisibleCountRef = 0
  /\ lastCellPhoneDetectionTimeRef = 0
  /\ latestDetectionScoreRef = [type |-> NULL, score |-> 0]
  /\ starts = 0
  /\ logEntries = << >>
  /\ detectionHistory = << >>
  /\ pendingUpdates = << >>
  /\ path = << >>
  /\ sample = SceneSample("alone")
  /\ \E types \in UNION {[1..n -> Kinds] : n \in 0..MaxInitStore} :
       violations = StoreOf(types)
  /\ activeRef \in [Kinds -> {NOIDX} \cup 0..MaxInitStore]
  /\ Loaded
  /\ InitExam
  /\ InitCoco

\* addViolation(type, score) and the render that runs its updater.
ApplyAddViolation(type, score) ==
  /\ now + TICK_MS <= T0 + MaxApply * TICK_MS
  /\ now' = now + TICK_MS
  /\ LET m == Render(addViolation(Machine(0), type, score, now'), now')
     IN  /\ violations' = m.violations
         /\ activeRef' = m.activeRef
         /\ logEntries' = m.log
  /\ UNCHANGED <<detectionHistory, pendingUpdates>>
  /\ UNCHANGED <<detectionCountRef, faceNotVisibleCountRef, lastCellPhoneDetectionTimeRef,
                 latestDetectionScoreRef, sample, path, starts,
                 loaderVars, examVars, cocoVars>>

\* The close step of a kind and the render after it, React running the
\* updater at the call (eager = 1) or in the render (eager = 0).
ApplyClose(type, eager) ==
  /\ now + TICK_MS <= T0 + MaxApply * TICK_MS
  /\ now' = now + TICK_MS
  /\ LET m == Render(Close(Machine(eager), type, now'), now')
     IN  /\ violations' = m.violations
         /\ activeRef' = m.activeRef
         /\ logEntries' = m.log
  /\ UNCHANGED <<detectionHistory, pendingUpdates>>
  /\ UNCHANGED <<detectionCountRef, faceNotVisibleCountRef, lastCellPhoneDetectionTimeRef,
                 latestDetectionScoreRef, sample, path, starts,
                 loaderVars, examVars, cocoVars>>

NextStore ==
  \/ \E type \in Kinds : \E score \in Scores \cup {UNDEFINED} : ApplyAddViolation(type, score)
  \/ \E type \in Kinds : \E eager \in 0..1 : ApplyClose(type, eager)

SpecStore == InitStore /\ [][NextStore]_vars

\* ------------------------------------ from the objects of a frame to a sample
\* An object in front of the camera, as the object detector scores it: the
\* name of its first category, its score in tenths, and whether its bounding
\* box has the area and the aspect ratio of a phone held in the picture.
Objects ==
  [categoryName : {"cell phone", "book"}, score : {2, 5, 7},
   boundingBox : {"plausible", "implausible"}]

Frames == {f \in SUBSET Objects : Cardinality(f) <= MaxObjects}

\* objectDetector.detectForVideo (line 816) with the options of lines
\* 762-771: the detections that reach scoreThreshold.
DetectForVideo(frame) == {d \in frame : d.score >= SCORE_THRESHOLD}

\* isPhone (lines 977-983).
IsPhone(d) == d.categoryName \in {"cell phone", "cellphone", "phone", "mobile",
                                  "mobile phone", "smartphone"}

\* Lines 965-995: the scores of the detections that set isCellPhoneDetected
\* and enter cellPhoneScore.
PhoneScores(detections) == {d.score : d \in {x \in detections : IsPhone(x)}}

\* The sample of a frame with these objects and this many faces.
FrameSample(frame, faceCount) ==
  [phones |-> PhoneScores(DetectForVideo(frame)), faceCount |-> faceCount]

\* One firing of the 100 ms timer on a frame.
FrameTick(frame, faceCount, eager) ==
  /\ now + TICK_MS <= T0 + MaxFrameTicks * TICK_MS
  /\ Tick(FrameSample(frame, faceCount), eager)

InitFrame ==
  /\ InitEngine
  /\ path = << >>
  /\ sample = SceneSample("alone")
  /\ Loaded
  /\ InitExam
  /\ InitCoco

NextFrame ==
  \E frame \in Frames : \E faceCount \in 0..MaxFaces :
    \E eager \in {e \in 0..MaxEager :
                    e <= SetCalls(FrameSample(frame, faceCount), now + TICK_MS)} :
      FrameTick(frame, faceCount, eager)

SpecFrame == InitFrame /\ [][NextFrame]_vars

\* ------------------------------------ handlers and renders as separate steps
\* One firing of the 100 ms timer whose setViolations calls React queues:
\* the handler returns before any updater has run.  The render of the tick
\* before it is over.
QueueTick(smp) ==
  /\ intervals # {}
  /\ DetectorsReady
  /\ pendingUpdates = << >>
  /\ now + TICK_MS <= T0 + MaxQueueTicks * TICK_MS
  /\ now' = now + TICK_MS
  /\ sample' = smp
  /\ Install(DetectBody(Machine(0), smp, now'))
  /\ UNCHANGED <<path, starts, loaderVars, examVars, cocoVars>>

\* handleStartExam (lines 547-589) before the render of what is queued:
\* setViolations([]) joins the queue, the three refs are null at once.
QueueStartExam ==
  /\ StartExamEnabled
  /\ starts < MaxStarts
  /\ starts' = starts + 1
  /\ LET m0 == [Machine(0) EXCEPT !.pending = Append(@, ResetUpdate)]
     IN  Install([m0 EXCEPT !.activeRef = [k \in Kinds |-> NOIDX]])
  /\ examVideoChunksRef' = << >>
  /\ examRecorders' = Append(examRecorders, NewExamRecorder("recording"))
  /\ examMediaRecorderRef' = Len(examRecorders) + 1
  /\ isExamActive' = TRUE
  /\ UNCHANGED <<now, sample, path, artifacts, loaderVars, cocoVars>>

\* The render React scheduled: the queued updaters run in the order of
\* their calls, each reading the refs as they are now.
RenderQueue ==
  /\ pendingUpdates # << >>
  /\ LET m == Render(Machine(0), now)
     IN  /\ Len(m.violations) <= MaxStore
         /\ Install(m)
  /\ UNCHANGED <<now, sample, path, starts, loaderVars, examVars, cocoVars>>

InitQueue ==
  /\ InitEngine
  /\ path = << >>
  /\ sample = SceneSample("alone")
  /\ Loaded
  /\ InitExam
  /\ InitCoco

NextQueue ==
  \/ \E smp \in {SceneSample("alone"), SceneSample("phone_alone"), SceneSample("crowd")} :
       QueueTick(smp)
  \/ QueueStartExam
  \/ RenderQueue

SpecQueue == InitQueue /\ [][NextQueue]_vars

\* ------------------------------------ the log and the detection history
\* One firing of the 100 ms timer on a frame with a phone and one face, in
\* the first seconds of a long stay on the page.
LogTick ==
  /\ intervals # {}
  /\ DetectorsReady
  /\ now + TICK_MS <= T0 + MaxLogTicks * TICK_MS
  /\ TickBody(SceneSample("phone_alone"), 0)
  /\ UNCHANGED <<path, loaderVars, examVars, cocoVars>>

\* One firing of the 10 s inactivity timer (lines 1271-1277) that finds the
\* page visible and no tab activity for 5 s: it logs.
InactivityCheck ==
  /\ now + INACTIVITY_CHECK_MS
       <= T0 + MaxLogTicks * TICK_MS + MaxLogCalls * INACTIVITY_CHECK_MS
  /\ now' = now + INACTIVITY_CHECK_MS
  /\ logEntries' = AddLogEntry(logEntries,
                               [text |-> "User Not Active On Current Tab",
                                percent |-> UNDEFINED],
                               now')
  /\ UNCHANGED <<violations, activeRef, detectionCountRef, faceNotVisibleCountRef,
                 lastCellPhoneDetectionTimeRef, latestDetectionScoreRef, sample,
                 path, starts, detectionHistory, pendingUpdates>>
  /\ UNCHANGED <<loaderVars, examVars, cocoVars>>

InitLog ==
  /\ InitEngine
  /\ path = << >>
  /\ sample = SceneSample("alone")
  /\ Loaded
  /\ InitExam
  /\ InitCoco

NextLog == LogTick \/ InactivityCheck

SpecLog == InitLog /\ [][NextLog]_vars

\* ------------------------------------------------------------ properties
\* A step is a processed tick exactly when the tracker is written: the
\* tracker's count grows or its type changes on every processed tick, and no
\* other handler writes it.
ProcessedTick == detectionCountRef' # detectionCountRef

\* The tick's selected candidate (currentDetection) is the tracker's type
\* after the tick.
Candidate == detectionCountRef.type

IsOpen(k) == activeRef[k] # NOIDX
OpenEntry(k) == violations[activeRef[k] + 1]

\* C2: when kind k has been the candidate for RequiredConsecutive(k)
\* consecutive ticks, with no interval of k open and (for cell_phone) the
\* debounce window over, the ticks before the last append nothing and the
\* last one appends exactly one entry, of kind k, with violationTime the
\* tick's time, startTime 10 s before it and endTime 10 s after it.
C2_OpensExactlyOne ==
  [][ProcessedTick /\ Candidate' \in Kinds /\ ~IsOpen(Candidate')
        /\ detectionCountRef'.count <= RequiredConsecutive(Candidate')
      => IF detectionCountRef'.count < RequiredConsecutive(Candidate')
           THEN Len(violations') = Len(violations)
           ELSE (Candidate' = "cell_phone"
                   => now' - lastCellPhoneDetectionTimeRef >= CELL_PHONE_DEBOUNCE_MS)
                => /\ Len(violations') = Len(violations) + 1
                   /\ LET e == violations'[Len(violations')]
                      IN  /\ e.type = Candidate'
                          /\ e.violationTime = now'
                          /\ e.startTime = e.violationTime - WINDOW_MS
                          /\ e.endTime = e.violationTime + WINDOW_MS
                   /\ activeRef'[Candidate'] = Len(violations') - 1
     ]_vars

\* C2 witness: a face_not_visible interval just created by the tick on
\* which the run reached its required length.
C2_Witness ==
  /\ detectionCountRef = [type |-> "face_not_visible",
                          count |-> REQUIRED_CONSECUTIVE_FACE_MISSES]
  /\ IsOpen("face_not_visible")
  /\ OpenEntry("face_not_visible").violationTime = now
  /\ OpenEntry("face_not_visible").endTime = now + WINDOW_MS
  /\ Len(violations) = 1

\* C3: flicker suppression.  Every entry a tick appends is of the tick's
\* candidate kind, and the candidate has then been selected on at least
\* RequiredConsecutive consecutive ticks: a run of fewer ticks, and the tick
\* that interrupts it, append no entry of the kind.
C3_FlickerSuppressed ==
  [][Len(violations') > Len(violations)
      => /\ Len(violations') = Len(violations) + 1
         /\ violations'[Len(violations')].type = Candidate'
         /\ detectionCountRef'.count >= RequiredConsecutive(Candidate')
     ]_vars

\* C3 witness: multiple_faces was the candidate on ticks 1..7 (one less
\* than required), tick 8 selected nothing, and the store is empty.
C3_Witness ==
  /\ path = <<"crowd", "alone">>
  /\ now = T0 + REQUIRED_CONSECUTIVE_DETECTIONS_MULTIPLE_FACES * TICK_MS
  /\ detectionCountRef = [type |-> NULL, count |-> 0]
  /\ violations = << >>

\* C4: while an interval of kind k is open, a tick on which k is again the
\* candidate leaves the number of entries unchanged.
C4_ContinuationAppendsNothing ==
  [][\A k \in Kinds :
        ProcessedTick /\ IsOpen(k) /\ Candidate = k /\ Candidate' = k
        => Len(violations') = Len(violations)
     ]_vars

\* C4 witness: a cell_phone interval opened on tick 3 and still open three
\* ticks later, the debounce rejecting the alert, in a store of one entry.
C4_Witness ==
  /\ IsOpen("cell_phone")
  /\ detectionCountRef = [type |-> "cell_phone",
                          count |-> REQUIRED_CONSECUTIVE_DETECTIONS_CELL_PHONE + 3]
  /\ now - lastCellPhoneDetectionTimeRef < CELL_PHONE_DEBOUNCE_MS
  /\ OpenEntry("cell_phone").violationTime = now - 3 * TICK_MS
  /\ Len(violations) = 1

\* C5: while the same interval stays open (the ref of its kind keeps its
\* index from one state to the next), its endTime never becomes smaller.
C5_EndTimeMonotone ==
  [][\A k \in Kinds :
        IsOpen(k) /\ activeRef'[k] = activeRef[k]
          /\ Len(violations') >= Len(violations)
        => violations'[activeRef[k] + 1].endTime >= OpenEntry(k).endTime
     ]_vars

\* C6: when an interval of kind A is open and a tick selects another kind B,
\* that tick writes its time into the endTime of A's interval and clears
\* A's ref; and B's interval is opened at the end of B's required run (C2).
C6_SwitchClosesAtOnce ==
  [][\A A \in Kinds :
        ProcessedTick /\ IsOpen(A) /\ Candidate' \in Kinds \ {A}
        => /\ activeRef'[A] = NOIDX
           /\ violations'[activeRef[A] + 1].endTime = now'
     ]_vars

\* C7: in a run of ticks that all report no face and no phone, from the
\* initial state, the face_not_visible interval is open exactly from tick
\* REQUIRED_CONSECUTIVE_FACE_MISSES on.
C7_AbsentOpensAtTick20 ==
  path = <<"absent">>
  => (IsOpen("face_not_visible")
        <=> now >= T0 + REQUIRED_CONSECUTIVE_FACE_MISSES * TICK_MS)

\* C8: a phone on ticks 1..3 from the initial state and none on tick 4: the
\* store then holds exactly one entry, opened on tick 3 with that tick's
\* score and closed with endTime the time of tick 4.
C8_PhoneScenario ==
  /\ path = <<"phone_alone", "alone">>
  /\ now = T0 + (REQUIRED_CONSECUTIVE_DETECTIONS_CELL_PHONE + 1) * TICK_MS
  /\ detectionCountRef = [type |-> NULL, count |-> 0]
  => /\ Len(violations) = 1
     /\ violations[1].type = "cell_phone"
     /\ violations[1].violationTime = now - TICK_MS
     /\ violations[1].score = 7
     /\ violations[1].endTime = now
     /\ ~IsOpen("cell_phone")

\* A tick that confirms cell_phone while no cell_phone interval is open.
PhoneReconfirmed ==
  /\ ProcessedTick
  /\ Candidate' = "cell_phone"
  /\ detectionCountRef'.count >= REQUIRED_CONSECUTIVE_DETECTIONS_CELL_PHONE
  /\ ~IsOpen("cell_phone")

\* The opening time T of the last cell_phone interval of the store.
HasPhoneEntry == \E i \in 1..Len(violations) : violations[i].type = "cell_phone"
LastPhoneOpenedAt ==
  LET i == Max({j \in 1..Len(violations) : violations[j].type = "cell_phone"})
  IN  violations[i].violationTime

C9_WitnessSuppressed ==
  /\ Len(violations) = 1
  /\ violations[1].type = "cell_phone"
  /\ ~IsOpen("cell_phone")
  /\ detectionCountRef.type = "cell_phone"
  /\ detectionCountRef.count >= REQUIRED_CONSECUTIVE_DETECTIONS_CELL_PHONE
  /\ now - lastCellPhoneDetectionTimeRef < CELL_PHONE_DEBOUNCE_MS

\* C10: on every tick that confirms cell_phone while a cell_phone interval
\* is open, the interval's endTime becomes the tick's time and its score
\* the tick's phone score, whether the debounce accepts the alert or not.
C10_ContinuationNotGated ==
  [][/\ ProcessedTick
     /\ Candidate' = "cell_phone"
     /\ detectionCountRef'.count >= REQUIRED_CONSECUTIVE_DETECTIONS_CELL_PHONE
     /\ IsOpen("cell_phone")
     => /\ activeRef'["cell_phone"] = activeRef["cell_phone"]
        /\ Len(violations') = Len(violations)
        /\ violations'[activeRef["cell_phone"] + 1].endTime = now'
        /\ violations'[activeRef["cell_phone"] + 1].score = CellPhoneScore(sample')
     ]_vars

\* C10 witness: an open cell_phone interval extended by a tick the debounce
\* rejected, carrying the score of that tick.
C10_Witness ==
  /\ path = << >>
  /\ IsOpen("cell_phone")
  /\ now - lastCellPhoneDetectionTimeRef \in 1..(CELL_PHONE_DEBOUNCE_MS - 1)
  /\ OpenEntry("cell_phone").endTime = now
  /\ OpenEntry("cell_phone").violationTime < now
  /\ sample.phones = {5}
  /\ OpenEntry("cell_phone").score = 5

\* The raw condition of kind k in a frame sample: a phone for cell_phone,
\* more than one face for multiple_faces, no face for face_not_visible.
RawCondition(k, smp) ==
  CASE k = "cell_phone"       -> smp.phones # {}
    [] k = "multiple_faces"   -> smp.faceCount > 1
    [] k = "face_not_visible" -> smp.faceCount = 0

\* C11: after every processed tick whose sample does not show the raw
\* condition of kind k, the ref of k is null (k has no open interval).
C11_OpenOnlyWhileOngoing ==
  [][\A k \in Kinds :
        ProcessedTick /\ ~RawCondition(k, sample') => activeRef'[k] = NOIDX
     ]_vars

\* C16: a tick that cannot obtain classifier results leaves the tracker,
\* the face-miss counter, the debounce timestamp, the active refs and the
\* interval store as they were.
C16_SkippedTickMutatesNothing ==
  [][SkipTick
      => UNCHANGED <<detectionCountRef, faceNotVisibleCountRef,
                     lastCellPhoneDetectionTimeRef, activeRef, violations>>
     ]_vars

\* C16 witness: a cell_phone run with its interval open, interrupted by
\* skipped ticks: the tracker still counts cell_phone, the ref is still set
\* and the interval's endTime is that of the last processed tick.
C16_Witness ==
  /\ path = <<"phone_alone", "not_ready">>
  /\ detectionCountRef.type = "cell_phone"
  /\ IsOpen("cell_phone")
  /\ OpenEntry("cell_phone").endTime = now - 2 * TICK_MS
  /\ OpenEntry("cell_phone").violationTime < OpenEntry("cell_phone").endTime

\* C20: within a session (no step of handleStartExam) the store only grows
\* at its end, the type, violationTime and startTime of an entry never
\* change, and violationTime does not decrease with the index.
C20_AppendOnlyChronological ==
  [][starts' = starts
      => /\ Len(violations') >= Len(violations)
         /\ \A i \in 1..Len(violations) :
              /\ violations'[i].type = violations[i].type
              /\ violations'[i].violationTime = violations[i].violationTime
              /\ violations'[i].startTime = violations[i].startTime
         /\ \A i, j \in 1..Len(violations') :
              i < j => violations'[i].violationTime <= violations'[j].violationTime
     ]_vars

\* C20 witness: a store of two entries, the first one closed by a tick after
\* its opening and the second one open.
C20_Witness ==
  /\ Len(violations) = 2
  /\ violations[1].type = "cell_phone"
  /\ violations[1].endTime < violations[2].violationTime
  /\ violations[1].endTime > violations[1].violationTime
  /\ \E k \in Kinds : activeRef[k] = 1

\* C12: at most one MediaRecorder started by startRecording is recording at
\* any time.
C12_AtMostOneRecording ==
  Cardinality({i \in 1..Len(mediaRecorders) : mediaRecorders[i] = "recording"}) <= 1

\* C13: every capture startRecording started is stopped by its 5 s timeout
\* or by the cleanup: once the component is unmounted and no timeout is
\* pending, nothing is left that could stop a recorder, so none is recording.
C13_EveryCaptureStopped ==
  ~cocoMounted /\ timeouts = {}
  => \A i \in 1..Len(mediaRecorders) : mediaRecorders[i] # "recording"

\* C14: the stop event of a capture that handleEndExam stopped emits exactly
\* one artifact, built from all the chunks the capture delivered, and leaves
\* isExamActive false, the chunk buffer empty and the recorder ref null.
C14_EndEmitsOneArtifact ==
  [][\A r \in 1..Len(examRecorders) :
        /\ examRecorders[r].state = "stopping"
        /\ examRecorders[r].onstop
        /\ examRecorders'[r].state = "stopped"
        => /\ Len(artifacts') = Len(artifacts) + 1
           /\ artifacts'[Len(artifacts')] = [i \in 1..examRecorders'[r].delivered |-> r]
           /\ ~isExamActive'
           /\ examVideoChunksRef' = << >>
           /\ examMediaRecorderRef' = 0
     ]_vars

\* The state of the engine after a tick on sample smp, from the state the
\* step starts in, for some number of updaters run at the call.
TickResult(smp) ==
  \E eager \in 0..MaxEager :
    LET m == Detect(Machine(eager), smp, now')
    IN  /\ violations' = m.violations
        /\ activeRef' = m.activeRef
        /\ detectionCountRef' = m.dc
        /\ faceNotVisibleCountRef' = m.fnv
        /\ lastCellPhoneDetectionTimeRef' = m.last

StartRecordingFailureIsCaught ==
  [][Len(mediaRecorders') > Len(mediaRecorders) /\ mediaRecorders'[Len(mediaRecorders')] = "inactive"
      => /\ isRecording' = isRecording
         /\ timeouts' = timeouts
         /\ cocoPc' = "running"
     ]_vars

\* C17: when exactly one of the two detectors failed to initialize (the
\* face detector is there, the object detector is not, and loading is over)
\* the detection timer runs, so that the kinds of the other detector are
\* still served.
C17_OtherDetectorStillServes ==
  loadPc = "failed" /\ faceDetectorRef /\ ~objectDetectorRef /\ ~unmounted
  => intervals # {}

\* C18: at most one call of detect is between its timer firing and the end
\* of its state updates.
C18_OneTickInFlight == inFlight <= 1

\* C19: once the cleanup has run, no detection timer is live.
C19_TimerCancelledAtTeardown == unmounted => intervals = {}

\* Entry i of the store is closed: the ref of its kind does not point at it.
Closed(i) == activeRef[violations[i].type] # i - 1

\* C21: within a session no step changes a field of a closed entry, and a
\* ref that gets a new value points at an entry the step appended.
C21_ClosedIsImmutable ==
  [][starts' = starts
      => /\ \A i \in 1..Len(violations) :
              Closed(i) => i <= Len(violations') /\ violations'[i] = violations[i]
         /\ \A k \in Kinds :
              activeRef'[k] # NOIDX /\ activeRef'[k] # activeRef[k]
              => /\ Len(violations') = Len(violations) + 1
                 /\ activeRef'[k] = Len(violations)
                 /\ violations'[Len(violations')].violationTime = now'
     ]_vars

\* C21 witness: a closed cell_phone entry, and after it a second cell_phone
\* entry that a re-confirmation appended and a later tick extended.
C21_Witness ==
  /\ Len(violations) = 2
  /\ violations[1].type = "cell_phone"
  /\ violations[2].type = "cell_phone"
  /\ activeRef["cell_phone"] = 1
  /\ violations[2].violationTime < now
  /\ violations[2].endTime = now
  /\ violations[1].endTime < violations[2].violationTime

\* C22: handleStartExam leaves the tracker at {null, 0}, the face-miss
\* counter at 0 and the debounce timestamp at its initial 0.
C22_StartResetsEngine ==
  [][starts' = starts + 1
      => /\ detectionCountRef' = [type |-> NULL, count |-> 0]
         /\ faceNotVisibleCountRef' = 0
         /\ lastCellPhoneDetectionTimeRef' = 0
     ]_vars

\* The candidate the precedence cell_phone, multiple_faces, face_not_visible
\* selects for a sample, given the face-miss counter after the tick.
Precedence(smp, misses) ==
  IF smp.phones # {} THEN "cell_phone"
  ELSE IF smp.faceCount > 1 THEN "multiple_faces"
  ELSE IF smp.faceCount = 0 /\ misses >= REQUIRED_CONSECUTIVE_FACE_MISSES
         THEN "face_not_visible"
  ELSE NULL

\* C23: the candidate of every processed tick is the one the precedence
\* selects for its sample (one candidate at most).
C23_CandidatePrecedence ==
  [][ProcessedTick => Candidate' = Precedence(sample', faceNotVisibleCountRef')]_vars

\* C23 witness: a frame with a phone and two faces after a run of frames
\* with two faces: the candidate is cell_phone.
C23_Witness ==
  /\ path = <<"crowd", "phone_crowd">>
  /\ sample = SceneSample("phone_crowd")
  /\ detectionCountRef = [type |-> "cell_phone", count |-> 1]

\* C24: the tracker's count is positive only when its type is a kind.
C24_CountImpliesKind ==
  detectionCountRef.count > 0 => detectionCountRef.type # NULL

\* C25: on a processed tick whose candidate is the tracker's type before the
\* tick the count grows by one; otherwise the tracker's type becomes the
\* candidate and its count 1 for a kind and 0 for none.
C25_TrackerTransition ==
  [][ProcessedTick
      => IF Candidate' = detectionCountRef.type
           THEN detectionCountRef'.count = detectionCountRef.count + 1
           ELSE detectionCountRef'.count = IF Candidate' # NULL THEN 1 ELSE 0
     ]_vars

C27_CloseWritesEndTime ==
  [][\A k \in Kinds :
        starts' = starts /\ IsOpen(k) /\ activeRef'[k] = NOIDX
        => /\ activeRef[k] + 1 \in 1..Len(violations')
           /\ violations'[activeRef[k] + 1].endTime = now'
     ]_vars

\* C28: the close step of a kind changes nothing when the ref of the kind is
\* null, done twice it gives what it gives done once, and when the ref
\* points at an entry of the kind it writes the time into the entry's
\* endTime and clears the ref.
C28_CloseIdempotent ==
  [][\A k \in Kinds : \A e \in 0..1 :
        ApplyClose(k, e)
        => /\ activeRef'[k] = NOIDX
           /\ activeRef[k] = NOIDX => violations' = violations /\ activeRef' = activeRef
           /\ LET m1 == Render(Close(Machine(e), k, now'), now')
                  m2 == Render(Close([m1 EXCEPT !.eager = e], k, now'), now')
              IN  m2.violations = m1.violations /\ m2.activeRef = m1.activeRef
           /\ ValidAt(violations, activeRef[k], k)
              => violations'[activeRef[k] + 1].endTime = now'
     ]_vars

\* C29: addViolation on a ref that is set but points at no entry, or at an
\* entry of another kind, changes no entry of the store: it appends one and
\* points the ref at it.  On a ref that points at an entry of the kind it
\* changes nothing but that entry's endTime, set to the time, and, when a
\* score is given, its score.
C29_StalePointerRepaired ==
  [][\A k \in Kinds : \A sc \in Scores \cup {UNDEFINED} :
        ApplyAddViolation(k, sc)
        => IF ValidAt(violations, activeRef[k], k)
             THEN /\ Len(violations') = Len(violations)
                  /\ activeRef' = activeRef
                  /\ \A i \in 1..Len(violations) :
                       IF i = activeRef[k] + 1
                         THEN violations'[i] =
                                [violations[i] EXCEPT
                                   !.endTime = now',
                                   !.score = IF sc # UNDEFINED THEN sc ELSE @]
                         ELSE violations'[i] = violations[i]
             ELSE /\ violations' = Append(violations, NewViolation(k, now', sc))
                  /\ activeRef' = [activeRef EXCEPT ![k] = Len(violations)]
     ]_vars

\* C29 witness: the cell_phone ref pointed at an entry of another kind;
\* addViolation left that entry as it was and appended a cell_phone entry,
\* which the ref now points at.
C29_Witness ==
  /\ Len(violations) = 2
  /\ violations[1] = StoreOf(<<"multiple_faces">>)[1]
  /\ violations[2].type = "cell_phone"
  /\ violations[2].violationTime = T0 + TICK_MS
  /\ activeRef["cell_phone"] = 1
  /\ now = T0 + TICK_MS

\* C30: on a tick whose frame holds phone detections, the score kept for
\* the tick is the highest of their scores, and it is the score of the
\* cell_phone interval the tick opens or extends.
C30_HighestScoreStored ==
  [][ProcessedTick /\ sample'.phones # {}
      => /\ latestDetectionScoreRef' = [type |-> "cell_phone", score |-> Max(sample'.phones)]
         /\ IsOpen("cell_phone")'
            => /\ violations'[activeRef'["cell_phone"] + 1].score = Max(sample'.phones)
               /\ violations'[activeRef'["cell_phone"] + 1].endTime \in {now', now' + WINDOW_MS}
     ]_vars

\* C30 witness: a cell_phone interval opened on a frame with two phone
\* detections, of scores 0.5 and 0.7: its score is 0.7.
C30_Witness ==
  /\ sample.phones = {5, 7}
  /\ IsOpen("cell_phone")
  /\ OpenEntry("cell_phone").violationTime = now
  /\ OpenEntry("cell_phone").score = 7

\* C31: after a processed tick that leaves a multiple_faces interval open
\* (the tick opened or extended it), the score of the interval is the number
\* of faces of the tick's frame, a number above 1.
C31_FaceCountIsScore ==
  [][ProcessedTick /\ IsOpen("multiple_faces")'
      => /\ Candidate' = "multiple_faces"
         /\ sample'.faceCount > 1
         /\ violations'[activeRef'["multiple_faces"] + 1].score = sample'.faceCount
     ]_vars

\* C31 witness: a multiple_faces interval opened on one tick and extended
\* on the next, on a frame with three faces: its score is 3.
C31_Witness ==
  /\ IsOpen("multiple_faces")
  /\ OpenEntry("multiple_faces").violationTime = now - TICK_MS
  /\ OpenEntry("multiple_faces").endTime = now
  /\ sample.faceCount = 3
  /\ OpenEntry("multiple_faces").score = 3

\* C33: a kind with an open interval is the tracker's type, so at most one
\* interval is open.
C33_OpenKindIsTracked ==
  /\ \A k \in Kinds : IsOpen(k) => Candidate = k
  /\ Cardinality({k \in Kinds : IsOpen(k)}) <= 1

\* The tracker confirms kind k.
Confirmed(k) ==
  /\ detectionCountRef.type = k
  /\ detectionCountRef.count >= RequiredConsecutive(k)

\* C34: within a session the endTime of an entry changes only on a tick that
\* confirms the entry's kind or on the tick that clears the ref pointing at
\* it, and a tick whose candidate is a kind not yet confirmed changes no
\* entry of that kind.
C34_EndTimeOnlyWhenConfirmed ==
  [][starts' = starts
      => \A i \in 1..Len(violations) :
           LET k == violations[i].type
           IN  /\ i <= Len(violations')
               /\ violations'[i].endTime # violations[i].endTime
                  => \/ Confirmed(k)'
                     \/ activeRef[k] = i - 1 /\ activeRef'[k] = NOIDX
               /\ Candidate' = k /\ ~Confirmed(k)' /\ ProcessedTick
                  => violations'[i] = violations[i]
     ]_vars

\* C36: every entry of the store starts 10 s before its violation time and
\* ends at or after it, and no step of a session changes the violation time
\* or the start time of an entry.
C36_IntervalShape ==
  /\ [](\A i \in 1..Len(violations) :
          /\ violations[i].startTime = violations[i].violationTime - WINDOW_MS
          /\ violations[i].startTime <= violations[i].violationTime
          /\ violations[i].violationTime <= violations[i].endTime)
  /\ [][starts' = starts
         => \A i \in 1..Len(violations) :
              /\ i <= Len(violations')
              /\ violations'[i].violationTime = violations[i].violationTime
              /\ violations'[i].startTime = violations[i].startTime
              /\ violations'[i].type = violations[i].type
        ]_vars

\* C36 witness: an entry that was opened, extended and then closed, with
\* its violation time and start time as they were set at the opening.
C36_Witness ==
  /\ Len(violations) = 1
  /\ ~IsOpen(violations[1].type)
  /\ violations[1].violationTime < violations[1].endTime
  /\ violations[1].endTime = now
  /\ violations[1].endTime < violations[1].violationTime + WINDOW_MS
  /\ violations[1].startTime = violations[1].violationTime - WINDOW_MS

\* C37: a step of a session either appends one entry to the store and one
\* entry to the log, the message of the appended interval at the time of the
\* step, or appends to neither; handleStartExam logs nothing.
C37_OneLogEntryPerInterval ==
  [][IF starts' = starts /\ Len(violations') = Len(violations) + 1
       THEN LET v == violations'[Len(violations')]
            IN  logEntries' = Append(logEntries,
                                     [timestamp |-> now' \div 1000,
                                      message |-> ViolationMessage(v.type, v.score)])
       ELSE /\ logEntries' = logEntries
            /\ starts' = starts => Len(violations') = Len(violations)
     ]_vars

\* C37 witness: a cell_phone interval opened, extended and closed and a
\* second one opened and extended: two entries in the log.
C37_Witness ==
  /\ Len(violations) = 2
  /\ violations[1].type = "cell_phone"
  /\ violations[2].type = "cell_phone"
  /\ violations[1].endTime < violations[2].violationTime
  /\ violations[2].violationTime < violations[2].endTime
  /\ violations[2].endTime = now
  /\ Len(logEntries) = 2

C32_OnlyPlausiblePhones ==
  [][\A frame \in Frames : \A faceCount \in 0..MaxFaces : \A eager \in 0..MaxEager :
        FrameTick(frame, faceCount, eager) /\ Candidate' = "cell_phone"
        => \E d \in frame : /\ IsPhone(d)
                            /\ d.score >= SCORE_THRESHOLD
                            /\ d.boundingBox = "plausible"
     ]_vars

\* C35: once every queued update has run, each ref that is not null is the
\* index of an entry of the store, of the kind of the ref.
C35_PointersValid ==
  pendingUpdates = << >>
  => \A k \in Kinds : activeRef[k] # NOIDX => ValidAt(violations, activeRef[k], k)

====
